---- MODULE Spec2Model ----
(***************************************************************************)
(* A model of adcc/properties.py: the calculators of transition dipole     *)
(* moments, oscillator strengths and state dipole moments, and the         *)
(* orchestrators that attach them to a solver state.                       *)
(*                                                                         *)
(* Python objects are modelled as attribute dictionaries: a function from  *)
(* the names of the attributes that are present to their values, so that   *)
(* hasattr is membership in the domain and an assignment state.x = v       *)
(* extends or rebinds the dictionary.  Objects that are mutated live in    *)
(* `heap` and are referred to by their index (their identity).             *)
(*                                                                         *)
(* Numbers are integers.  oscillator_strengths carries the factor 2/3 as   *)
(* 2 and yields three times the oscillator strength, so that the result of *)
(* integer inputs is an integer.                                           *)
(***************************************************************************)
EXTENDS Integers, Sequences, FiniteSets, TLC

VARIABLES
    heap,      \* the solver-state objects, by identity (index)
    cur,       \* the local variable solver_state / state: an identity
    pc,        \* the statement that runs next
    call,      \* the call under way: function, arguments, the state as given
    provider,  \* the behaviour of attach_state_densities in this run
    calls,     \* the calls made to attach_state_densities, in order
    outcome,   \* "running", "returned", or the exception raised
    ret,       \* the identity an orchestrator returned (0: none)
    value      \* the array a calculator called directly returned

vars == <<heap, cur, pc, call, provider, calls, outcome, ret, value>>

(***************************************************************************)
(* Bounds of the model.                                                    *)
(***************************************************************************)
MaxStates == 2      \* most excited states of a solver state
MaxLen == 2         \* longest argument sequence of oscillator_strengths

(***************************************************************************)
(* Python's object model.                                                  *)
(***************************************************************************)
hasattr(o, a) == a \in DOMAIN o

setattr(o, a, v) == [x \in (DOMAIN o) \cup {a} |-> IF x = a THEN v ELSE o[x]]

None == [kind |-> "None"]

Label(name) == [kind |-> "str", name |-> name]

\* What a call yields: a value, or the exception it raises.
Return(v) == [exc |-> "", value |-> v]

Raise(e) == [exc |-> e, value |-> <<>>]

Min(a, b) == IF a < b THEN a ELSE b

RECURSIVE SumTo(_, _)
SumTo(f, n) == IF n = 0 THEN 0 ELSE f[n] + SumTo(f, n - 1)

\* The sum of the entries of a sequence of integers.
Sum(s) == SumTo(s, Len(s))

(***************************************************************************)
(* Collaborators of the module (their code is not in properties.py).       *)
(***************************************************************************)
\* product_trace: the sum over all index pairs of the elementwise product.
product_trace(A, B) ==
    Sum([i \in 1..Len(A) |-> Sum([j \in 1..Len(A[i]) |-> A[i][j] * B[i][j]])])

\* AdcMethod(label): the structured method identifier of a raw label.
\* adc2x computes its properties with adc2.
AdcMethod(m) ==
    [kind |-> "AdcMethod", name |-> m.name,
     property_method |-> IF m.name = "adc2x" THEN "adc2" ELSE m.name]

isinstance_AdcMethod(m) == m.kind = "AdcMethod"

\* HfDensityMatrix(reference_state): the density of the reference state.
HfDensityMatrix(reference_state) == reference_state.density

(***************************************************************************)
(* numpy.                                                                  *)
(***************************************************************************)
\* Mutant of Abs: the sign of the energy is kept.
Abs_Signed(x) == x

\* np.abs
Abs(x) == IF x < 0 THEN -x ELSE x

\* np.linalg.norm(v)**2: the sum of the squared components
NormSquared(v) == Sum([k \in 1..Len(v) |-> v[k] * v[k]])

\* vector + array of shape (N, len(vector)): the vector is added to each row.
\* An empty list gives an array of shape (0,), which does not broadcast
\* against a vector of 3 components.
BroadcastAdd(v, rows) ==
    IF Len(rows) = 0 /\ Len(v) \notin {0, 1}
    THEN Raise("ValueError: operands could not be broadcast together")
    ELSE Return([i \in 1..Len(rows) |-> [k \in 1..Len(v) |-> v[k] + rows[i][k]]])

(***************************************************************************)
(* The calculators.                                                        *)
(***************************************************************************)
\* Mutant of transition_dipole_moments: the dipole integrals are looked up
\* before the transition densities.
transition_dipole_moments_IntegralsFirst(state) ==
    IF ~hasattr(state.reference_state.operator_integrals, "electric_dipole")
    THEN Raise("ValueError: no electric dipole integrals")
    ELSE IF ~hasattr(state, "ground_to_excited_tdms")
    THEN Raise("ValueError: no transition densities")
    ELSE LET dipole_integrals == state.reference_state.operator_integrals.electric_dipole
             tdms == state.ground_to_excited_tdms
         IN  Return([i \in 1..Len(tdms) |->
                        [k \in 1..Len(dipole_integrals) |->
                            product_trace(dipole_integrals[k], tdms[i])]])

\* Mutant of transition_dipole_moments: the two loops are nested the other
\* way round, one row per component.
transition_dipole_moments_Transposed(state) ==
    IF ~hasattr(state, "ground_to_excited_tdms")
    THEN Raise("ValueError: no transition densities")
    ELSE IF ~hasattr(state.reference_state.operator_integrals, "electric_dipole")
    THEN Raise("ValueError: no electric dipole integrals")
    ELSE LET dipole_integrals == state.reference_state.operator_integrals.electric_dipole
             tdms == state.ground_to_excited_tdms
         IN  Return([k \in 1..Len(dipole_integrals) |->
                        [i \in 1..Len(tdms) |->
                            product_trace(dipole_integrals[k], tdms[i])]])

transition_dipole_moments(state) ==
    IF ~hasattr(state, "ground_to_excited_tdms")
    THEN Raise("ValueError: no transition densities")
    ELSE IF ~hasattr(state.reference_state.operator_integrals, "electric_dipole")
    THEN Raise("ValueError: no electric dipole integrals")
    ELSE LET dipole_integrals == state.reference_state.operator_integrals.electric_dipole
             tdms == state.ground_to_excited_tdms
         IN  Return([i \in 1..Len(tdms) |->
                        [k \in 1..Len(dipole_integrals) |->
                            product_trace(dipole_integrals[k], tdms[i])]])

\* Three times the oscillator strengths (see the head of the module).
oscillator_strengths(tdms, energies) ==
    [i \in 1..Min(Len(tdms), Len(energies)) |->
        2 * (NormSquared(tdms[i]) * Abs(energies[i]))]

\* Mutant of Unsupported: ADC(1) is let through.
Unsupported_Adc0Only(adcmethod) == adcmethod.property_method \in {"adc0"}

\* if method.property_method in ["adc0", "adc1"]:
Unsupported(adcmethod) == adcmethod.property_method \in {"adc0", "adc1"}

state_dipole_moments(state, method) ==
    IF ~hasattr(state, "state_diffdms")
    THEN Raise("ValueError: no state densities")
    ELSE IF ~hasattr(state.reference_state.operator_integrals, "electric_dipole")
    THEN Raise("ValueError: no electric dipole integrals")
    ELSE LET given == IF method = None THEN state.method ELSE method
             adcmethod == IF isinstance_AdcMethod(given) THEN given
                          ELSE AdcMethod(given)
             dipole_integrals == state.reference_state.operator_integrals.electric_dipole
             hf_dm == HfDensityMatrix(state.reference_state)
             mp2_diffdm == state.ground_state.mp2_diffdm
             gs_dip_moment ==
                 [k \in 1..Len(dipole_integrals) |->
                     (product_trace(dipole_integrals[k], hf_dm)
                        + product_trace(dipole_integrals[k], mp2_diffdm))
                     - state.reference_state.nuclear_dipole[k]]
             ddms == state.state_diffdms
         IN  IF Unsupported(adcmethod)
             THEN Raise("NotImplementedError")
             ELSE BroadcastAdd(gs_dip_moment,
                               [i \in 1..Len(ddms) |->
                                   [k \in 1..Len(dipole_integrals) |->
                                       product_trace(dipole_integrals[k], ddms[i])]])

(***************************************************************************)
(* The density provider, attach_state_densities: it attaches the densities *)
(* that the flags request to the state it is given.  The densities it      *)
(* computes, whether it fails, and whether it returns the object it was    *)
(* given or a new one, are inputs of a run (`provider`).                   *)
(***************************************************************************)
attach_state_densities(state, kw) ==
    LET a == IF kw.state_diffdm
             THEN setattr(state, "state_diffdms", provider.state_diffdms)
             ELSE state
        b == IF kw.ground_to_excited_tdm
             THEN setattr(a, "ground_to_excited_tdms", provider.ground_to_excited_tdms)
             ELSE a
    IN  IF kw.state_to_state_tdm
        THEN setattr(b, "state_to_state_tdms", provider.state_to_state_tdms)
        ELSE b

\* solver_state = attach_state_densities(solver_state, **kw), then go to `next`
CallProvider(kw, next) ==
    /\ calls' = Append(calls, kw)
    /\ IF provider.fails
       THEN /\ outcome' = "ProviderError"
            /\ UNCHANGED <<heap, cur, pc>>
       ELSE /\ IF provider.copies
               THEN /\ heap' = Append(heap, attach_state_densities(heap[cur], kw))
                    /\ cur' = Len(heap) + 1
               ELSE /\ heap' = [heap EXCEPT ![cur] = attach_state_densities(heap[cur], kw)]
                    /\ cur' = cur
            /\ pc' = next
            /\ outcome' = outcome

(***************************************************************************)
(* The inputs of a run.                                                    *)
(***************************************************************************)
\* the electric dipole integrals: one matrix per Cartesian component
DipoleIntegrals ==
    << <<<<1, 0>>, <<0, 1>>>>, <<<<0, 1>>, <<1, 0>>>>, <<<<2, -1>>, <<0, 1>>>> >>

NuclearDipole == <<1, -2, 3>>

ReferenceDensity == <<<<2, 0>>, <<1, 2>>>>

Mp2Diffdm == <<<<-1, 1>>, <<0, 1>>>>

\* the densities of excited state i, as the solver state carries them and as
\* the density provider computes them
StateDiffdm(i) == <<<<i, 1>>, <<0, -1>>>>

GroundToExcitedTdm(i) == <<<<1, i>>, <<-i, 2>>>>

ProvidedDiffdm(i) == <<<<0, i>>, <<i, 1>>>>

ProvidedTdm(i) == <<<<i, -1>>, <<2, 0>>>>

StateToStateTdm(i) == <<<<i, i>>, <<i, i>>>>

\* excitation energies, signed
Energy(i) == (2 * i) - 3

\* derived attributes left on a state by an earlier computation whose inputs
\* have changed since
StaleDipoleMoments(n) == [i \in 1..n |-> <<7, 7, 7>>]

StaleStrengths(n) == [i \in 1..n |-> 5]

MethodArgs ==
    {None, Label("adc0"), Label("adc2"), AdcMethod(Label("adc1")),
     AdcMethod(Label("adc2x"))}

StateMethods == {AdcMethod(Label("adc1")), AdcMethod(Label("adc2"))}

ReferenceState(has_dipole, dipole_integrals, nuclear_dipole, density) ==
    [operator_integrals |->
        IF has_dipole
        THEN [provider |-> "hf", electric_dipole |-> dipole_integrals]
        ELSE [provider |-> "hf"],
     nuclear_dipole |-> nuclear_dipole,
     density |-> density]

With(o, present, a, v) == IF present THEN setattr(o, a, v) ELSE o

\* A solver state built from the arrays `in`; `has` tells which optional
\* attributes it carries.
SolverStateOf(in, has) ==
    LET n == Len(in.eigenvalues)
        base == [eigenvalues |-> in.eigenvalues,
                 method |-> in.method,
                 reference_state |->
                    ReferenceState(has.electric_dipole, in.electric_dipole,
                                   in.nuclear_dipole, in.density),
                 ground_state |-> [mp2_diffdm |-> in.mp2_diffdm]]
        a == With(base, has.state_diffdms, "state_diffdms", in.state_diffdms)
        b == With(a, has.ground_to_excited_tdms, "ground_to_excited_tdms",
                  in.ground_to_excited_tdms)
        c == With(b, has.state_dipole_moments, "state_dipole_moments",
                  StaleDipoleMoments(n))
        d == With(c, has.transition_dipole_moments, "transition_dipole_moments",
                  StaleDipoleMoments(n))
    IN  With(d, has.oscillator_strengths, "oscillator_strengths",
             StaleStrengths(n))

\* A solver state of n excited states.
SolverState(n, method, has) ==
    SolverStateOf([eigenvalues |-> [i \in 1..n |-> Energy(i)],
                   method |-> method,
                   electric_dipole |-> DipoleIntegrals,
                   nuclear_dipole |-> NuclearDipole,
                   density |-> ReferenceDensity,
                   mp2_diffdm |-> Mp2Diffdm,
                   state_diffdms |-> [i \in 1..n |-> StateDiffdm(i)],
                   ground_to_excited_tdms |-> [i \in 1..n |-> GroundToExcitedTdm(i)]],
                  has)

Has ==
    [electric_dipole : BOOLEAN, state_diffdms : BOOLEAN,
     ground_to_excited_tdms : BOOLEAN, state_dipole_moments : BOOLEAN,
     transition_dipole_moments : BOOLEAN, oscillator_strengths : BOOLEAN]

Provider(n, fails, copies) ==
    [fails |-> fails, copies |-> copies,
     state_diffdms |-> [i \in 1..n |-> ProvidedDiffdm(i)],
     ground_to_excited_tdms |-> [i \in 1..n |-> ProvidedTdm(i)],
     state_to_state_tdms |-> [i \in 1..n |-> StateToStateTdm(i)]]

Functions ==
    {"attach_properties", "attach_state_properties",
     "attach_transition_properties", "state_dipole_moments",
     "transition_dipole_moments"}

\* the first statement of each function
Entry(fn) ==
    CASE fn = "attach_properties" -> "ap_copy"
      [] fn = "attach_state_properties" -> "asp_densities"
      [] fn = "attach_transition_properties" -> "atp_densities"
      [] fn = "state_dipole_moments" -> "sdm_call"
      [] fn = "transition_dipole_moments" -> "tdm_call"
      [] fn = "oscillator_strengths" -> "osc_call"

\* The start of a call fn(state, ...): the state as given is object 1.
Start(fn, state, transition_properties, state_properties, method, prov) ==
    /\ heap = <<state>>
    /\ cur = 1
    /\ pc = Entry(fn)
    /\ call = [fn |-> fn, state |-> state,
               transition_properties |-> transition_properties,
               state_properties |-> state_properties, method |-> method]
    /\ provider = prov
    /\ calls = <<>>
    /\ outcome = "running"
    /\ ret = 0
    /\ value = <<>>

Init ==
    \E fn \in Functions, n \in 0..MaxStates, has \in Has,
       sm \in StateMethods, method \in MethodArgs,
       tp \in BOOLEAN, sp \in BOOLEAN, fails \in BOOLEAN, copies \in BOOLEAN :
        \* the flags are parameters of attach_properties alone
        /\ fn # "attach_properties" => (tp /\ sp)
        \* transition_dipole_moments takes no method
        /\ fn = "transition_dipole_moments" => method = None
        \* the calculators do not call the density provider
        /\ fn \in {"state_dipole_moments", "transition_dipole_moments"}
              => (~fails /\ ~copies)
        /\ Start(fn, SolverState(n, sm, has), tp, sp, method,
                 Provider(n, fails, copies))

(***************************************************************************)
(* attach_properties                                                       *)
(***************************************************************************)
Running(at) == pc = at /\ outcome = "running"

\* Mutant of APCopy: the state is not copied.
APCopy_NoCopy ==
    /\ Running("ap_copy")
    /\ pc' = "ap_if_state"
    /\ UNCHANGED <<heap, cur, call, provider, calls, outcome, ret, value>>

\* solver_state = copy(solver_state)
APCopy ==
    /\ Running("ap_copy")
    /\ heap' = Append(heap, heap[cur])
    /\ cur' = Len(heap) + 1
    /\ pc' = "ap_if_state"
    /\ UNCHANGED <<call, provider, calls, outcome, ret, value>>

\* Mutant of APIfState: the flag is not looked at.
APIfState_Always ==
    /\ Running("ap_if_state")
    /\ pc' = "asp_densities"
    /\ UNCHANGED <<heap, cur, call, provider, calls, outcome, ret, value>>

\* if state_properties:
APIfState ==
    /\ Running("ap_if_state")
    /\ pc' = IF call.state_properties THEN "asp_densities" ELSE "ap_if_trans"
    /\ UNCHANGED <<heap, cur, call, provider, calls, outcome, ret, value>>

\* if transition_properties:
APIfTrans ==
    /\ Running("ap_if_trans")
    /\ pc' = IF call.transition_properties THEN "atp_densities" ELSE "ap_return"
    /\ UNCHANGED <<heap, cur, call, provider, calls, outcome, ret, value>>

\* return solver_state
APReturn ==
    /\ Running("ap_return")
    /\ outcome' = "returned"
    /\ ret' = cur
    /\ UNCHANGED <<heap, cur, pc, call, provider, calls, value>>

(***************************************************************************)
(* attach_state_properties                                                 *)
(***************************************************************************)
\* Mutant of NeedsStateDensities: the densities are always asked for.
NeedsStateDensities_Always(state) == TRUE

\* if not hasattr(solver_state, "state_diffdms"):
NeedsStateDensities(state) == ~hasattr(state, "state_diffdms")

\* if not hasattr(solver_state, "state_diffdms"): solver_state = attach_...
ASPDensities ==
    /\ Running("asp_densities")
    /\ IF ~NeedsStateDensities(heap[cur])
       THEN /\ pc' = "asp_dipole"
            /\ UNCHANGED <<heap, cur, calls, outcome>>
       ELSE CallProvider([state_diffdm |-> TRUE,
                          ground_to_excited_tdm |-> FALSE,
                          state_to_state_tdm |-> FALSE,
                          method |-> call.method], "asp_dipole")
    /\ UNCHANGED <<call, provider, ret, value>>

\* Mutant of ASPDipole: dipole moments that are present are kept.
ASPDipole_SkipIfPresent ==
    /\ Running("asp_dipole")
    /\ LET r == state_dipole_moments(heap[cur], call.method)
       IN  IF hasattr(heap[cur], "state_dipole_moments")
           THEN /\ pc' = "asp_return"
                /\ UNCHANGED <<heap, outcome>>
           ELSE IF r.exc # ""
           THEN /\ outcome' = r.exc
                /\ UNCHANGED <<heap, pc>>
           ELSE /\ heap' = [heap EXCEPT
                              ![cur] = setattr(@, "state_dipole_moments", r.value)]
                /\ pc' = "asp_return"
                /\ outcome' = outcome
    /\ UNCHANGED <<cur, call, provider, calls, ret, value>>

\* Mutant of ASPDipole: an exception of the calculator is swallowed.
ASPDipole_Swallow ==
    /\ Running("asp_dipole")
    /\ LET r == state_dipole_moments(heap[cur], call.method)
       IN  IF r.exc # ""
           THEN /\ pc' = "asp_return"
                /\ UNCHANGED <<heap, outcome>>
           ELSE /\ heap' = [heap EXCEPT
                              ![cur] = setattr(@, "state_dipole_moments", r.value)]
                /\ pc' = "asp_return"
                /\ outcome' = outcome
    /\ UNCHANGED <<cur, call, provider, calls, ret, value>>

\* solver_state.state_dipole_moments = state_dipole_moments(solver_state, method)
ASPDipole ==
    /\ Running("asp_dipole")
    /\ LET r == state_dipole_moments(heap[cur], call.method)
       IN  IF r.exc # ""
           THEN /\ outcome' = r.exc
                /\ UNCHANGED <<heap, pc>>
           ELSE /\ heap' = [heap EXCEPT
                              ![cur] = setattr(@, "state_dipole_moments", r.value)]
                /\ pc' = "asp_return"
                /\ outcome' = outcome
    /\ UNCHANGED <<cur, call, provider, calls, ret, value>>

\* return solver_state
ASPReturn ==
    /\ Running("asp_return")
    /\ IF call.fn = "attach_state_properties"
       THEN /\ outcome' = "returned"
            /\ ret' = cur
            /\ pc' = pc
       ELSE /\ pc' = "ap_if_trans"
            /\ UNCHANGED <<outcome, ret>>
    /\ UNCHANGED <<heap, cur, call, provider, calls, value>>

(***************************************************************************)
(* attach_transition_properties                                            *)
(***************************************************************************)
\* if not hasattr(state, "ground_to_excited_tdms"):
NeedsTransitionDensities(state) == ~hasattr(state, "ground_to_excited_tdms")

\* if not hasattr(state, "ground_to_excited_tdms"): state = attach_...
ATPDensities ==
    /\ Running("atp_densities")
    /\ IF ~NeedsTransitionDensities(heap[cur])
       THEN /\ pc' = "atp_dipole"
            /\ UNCHANGED <<heap, cur, calls, outcome>>
       ELSE CallProvider([state_diffdm |-> FALSE,
                          ground_to_excited_tdm |-> TRUE,
                          state_to_state_tdm |-> FALSE,
                          method |-> call.method], "atp_dipole")
    /\ UNCHANGED <<call, provider, ret, value>>

\* state.transition_dipole_moments = transition_dipole_moments(state)
ATPDipole ==
    /\ Running("atp_dipole")
    /\ LET r == transition_dipole_moments(heap[cur])
       IN  IF r.exc # ""
           THEN /\ outcome' = r.exc
                /\ UNCHANGED <<heap, pc>>
           ELSE /\ heap' = [heap EXCEPT
                              ![cur] = setattr(@, "transition_dipole_moments", r.value)]
                /\ pc' = "atp_strengths"
                /\ outcome' = outcome
    /\ UNCHANGED <<cur, call, provider, calls, ret, value>>

\* state.oscillator_strengths = oscillator_strengths(
\*     state.transition_dipole_moments, state.eigenvalues)
ATPStrengths ==
    /\ Running("atp_strengths")
    /\ heap' = [heap EXCEPT
                  ![cur] = setattr(@, "oscillator_strengths",
                                   oscillator_strengths(@.transition_dipole_moments,
                                                        @.eigenvalues))]
    /\ pc' = "atp_return"
    /\ UNCHANGED <<cur, call, provider, calls, outcome, ret, value>>

\* return state
ATPReturn ==
    /\ Running("atp_return")
    /\ IF call.fn = "attach_transition_properties"
       THEN /\ outcome' = "returned"
            /\ ret' = cur
            /\ pc' = pc
       ELSE /\ pc' = "ap_return"
            /\ UNCHANGED <<outcome, ret>>
    /\ UNCHANGED <<heap, cur, call, provider, calls, value>>

(***************************************************************************)
(* The calculators, called directly.                                       *)
(***************************************************************************)
Yield(r) ==
    /\ outcome' = IF r.exc # "" THEN r.exc ELSE "returned"
    /\ value' = r.value
    /\ UNCHANGED <<heap, cur, pc, call, provider, calls, ret>>

CallStateDipoleMoments ==
    /\ Running("sdm_call")
    /\ Yield(state_dipole_moments(heap[cur], call.method))

CallTransitionDipoleMoments ==
    /\ Running("tdm_call")
    /\ Yield(transition_dipole_moments(heap[cur]))

\* oscillator_strengths(transition_dipole_moments, energies)
CallOscillatorStrengths ==
    /\ Running("osc_call")
    /\ Yield(Return(oscillator_strengths(call.transition_dipole_moments,
                                         call.energies)))

Next ==
    \/ APCopy
    \/ APIfState
    \/ APIfTrans
    \/ APReturn
    \/ ASPDensities
    \/ ASPDipole
    \/ ASPReturn
    \/ ATPDensities
    \/ ATPDipole
    \/ ATPStrengths
    \/ ATPReturn
    \/ CallStateDipoleMoments
    \/ CallTransitionDipoleMoments

Spec == Init /\ [][Next]_vars

(***************************************************************************)
(* The calculators on their own, over arrays drawn from sets.              *)
(***************************************************************************)
Matrices ==
    {<<<<0, 0>>, <<0, 0>>>>, <<<<1, -2>>, <<3, 1>>>>, <<<<-1, 0>>, <<2, -3>>>>}

DipoleChoices ==
    {DipoleIntegrals,
     << <<<<0, 2>>, <<-1, 1>>>>, <<<<1, 1>>, <<1, -2>>>>, <<<<3, 0>>, <<0, 0>>>> >>}

NuclearDipoles == {NuclearDipole, <<0, 0, 0>>}

Vectors == {<<0, 0, 0>>, <<1, -2, 2>>, <<-3, 0, 1>>}

Energies == {-2, 0, 1, 3}

\* the sequences over S of length at most n
SeqsUpTo(S, n) == UNION {[1..m -> S] : m \in 0..n}

AllPresent ==
    [electric_dipole |-> TRUE, state_diffdms |-> TRUE,
     ground_to_excited_tdms |-> TRUE, state_dipole_moments |-> FALSE,
     transition_dipole_moments |-> FALSE, oscillator_strengths |-> FALSE]

InitDipoleCalc ==
    \E fn \in {"state_dipole_moments", "transition_dipole_moments"},
       densities \in SeqsUpTo(Matrices, MaxStates),
       dipole \in DipoleChoices, nuclear \in NuclearDipoles,
       method \in {None, Label("adc2x")} :
        /\ fn = "transition_dipole_moments"
              => (method = None /\ nuclear = NuclearDipole)
        /\ Start(fn,
                 SolverStateOf([eigenvalues |-> [i \in 1..Len(densities) |-> Energy(i)],
                                method |-> AdcMethod(Label("adc2")),
                                electric_dipole |-> dipole,
                                nuclear_dipole |-> nuclear,
                                density |-> ReferenceDensity,
                                mp2_diffdm |-> Mp2Diffdm,
                                state_diffdms |-> densities,
                                ground_to_excited_tdms |-> densities],
                               AllPresent),
                 TRUE, TRUE, method, Provider(0, FALSE, FALSE))

InitStrengthCalc ==
    \E tdms \in SeqsUpTo(Vectors, MaxLen), energies \in SeqsUpTo(Energies, MaxLen) :
        /\ heap = <<>>
        /\ cur = 0
        /\ pc = Entry("oscillator_strengths")
        /\ call = [fn |-> "oscillator_strengths",
                   transition_dipole_moments |-> tdms, energies |-> energies]
        /\ provider = Provider(0, FALSE, FALSE)
        /\ calls = <<>>
        /\ outcome = "running"
        /\ ret = 0
        /\ value = <<>>

InitCalc == InitDipoleCalc \/ InitStrengthCalc

NextCalc ==
    \/ CallStateDipoleMoments
    \/ CallTransitionDipoleMoments
    \/ CallOscillatorStrengths

SpecCalc == InitCalc /\ [][NextCalc]_vars

(***************************************************************************)
(* Properties.  Object 1 is the object the caller passed; call.state is    *)
(* what it was when the call started.                                      *)
(***************************************************************************)
Derived == {"state_dipole_moments", "transition_dipole_moments", "oscillator_strengths"}

Raised == outcome \notin {"running", "returned"}

\* attribute a of object o is what the state as given had: absent, or the
\* same value
AsGiven(o, a) ==
    IF hasattr(call.state, a) THEN hasattr(o, a) /\ o[a] = call.state[a]
    ELSE ~hasattr(o, a)

\* C1: attach_properties leaves the caller's object with exactly the
\* attributes and values it had, at every point of the call and whether the
\* call returns or raises, and what it returns is another object.
C1_OriginalUnmutated ==
    call.fn = "attach_properties" =>
        /\ heap[1] = call.state
        /\ DOMAIN heap[1] = DOMAIN call.state
        /\ outcome = "returned" => (ret # 1 /\ ret \in 2..Len(heap))

C1_Witness ==
    /\ call.fn = "attach_properties"
    /\ call.state_properties /\ call.transition_properties
    /\ outcome = "returned"
    /\ Derived \cap DOMAIN call.state = {}
    /\ Derived \subseteq DOMAIN heap[ret]

\* C2: attach_properties with both flags false raises nothing, never calls
\* the density provider, and returns a distinct object with the same
\* attribute names bound to the same values as the input.
C2_BothFlagsFalse ==
    (/\ call.fn = "attach_properties"
     /\ ~call.state_properties
     /\ ~call.transition_properties) =>
        /\ ~Raised
        /\ calls = <<>>
        /\ outcome = "running" => ENABLED Next
        /\ outcome = "returned" =>
              /\ ret # 1
              /\ DOMAIN heap[ret] = DOMAIN call.state
              /\ heap[ret] = call.state

C2_Witness ==
    /\ call.fn = "attach_properties"
    /\ ~call.state_properties /\ ~call.transition_properties
    /\ call.method = Label("adc0")
    /\ outcome = "returned"
    /\ heap[ret] = call.state
    /\ ~hasattr(call.state, "state_diffdms")

\* the orchestrator is past its call of the density provider, or failed in it
StateDensityStepDone ==
    pc # "asp_densities" \/ outcome = "ProviderError"

TransitionDensityStepDone ==
    pc # "atp_densities" \/ outcome = "ProviderError"

\* C4: attach_state_properties and attach_transition_properties call the
\* density provider exactly when the state they receive lacks their density
\* attribute: never when it is present, and otherwise once, requesting their
\* own kind of density alone, with the method they were given.
C4_ProviderWhenAbsent ==
    /\ call.fn = "attach_state_properties" =>
          calls = IF StateDensityStepDone /\ ~hasattr(call.state, "state_diffdms")
                  THEN <<[state_diffdm |-> TRUE, ground_to_excited_tdm |-> FALSE,
                          state_to_state_tdm |-> FALSE, method |-> call.method]>>
                  ELSE <<>>
    /\ call.fn = "attach_transition_properties" =>
          calls = IF TransitionDensityStepDone
                     /\ ~hasattr(call.state, "ground_to_excited_tdms")
                  THEN <<[state_diffdm |-> FALSE, ground_to_excited_tdm |-> TRUE,
                          state_to_state_tdm |-> FALSE, method |-> call.method]>>
                  ELSE <<>>

C4_Witness ==
    /\ call.fn = "attach_transition_properties"
    /\ outcome = "returned"
    /\ Len(calls) = 1
    /\ calls[1].ground_to_excited_tdm
    /\ call.method = Label("adc2")
    /\ hasattr(call.state, "state_diffdms")

Contraction(A, B) ==
    A[1][1] * B[1][1] + A[1][2] * B[1][2] + A[2][1] * B[2][1] + A[2][2] * B[2][2]

\* C7: transition_dipole_moments returns one vector per transition density,
\* in state order, each of 3 components, component k of vector i being the
\* contraction of the k-th dipole-integral matrix with the i-th transition
\* density; the state keeps its attributes and their values.
C7_TransitionDipoleMoments ==
    (call.fn = "transition_dipole_moments" /\ outcome = "returned") =>
        LET tdms == call.state.ground_to_excited_tdms
            dip == call.state.reference_state.operator_integrals.electric_dipole
        IN  /\ Len(value) = Len(tdms)
            /\ \A i \in 1..Len(tdms) :
                  /\ Len(value[i]) = 3
                  /\ \A k \in 1..3 : value[i][k] = Contraction(dip[k], tdms[i])
            /\ heap = <<call.state>>

C7_Witness ==
    /\ call.fn = "transition_dipole_moments"
    /\ outcome = "returned"
    /\ Len(value) = MaxStates
    /\ value[1] # value[MaxStates]
    /\ \E k \in 1..3 : value[1][k] < 0

\* the method state_dipole_moments settles on: the argument if given, else
\* the state's, as a structured identifier
EffectiveMethod ==
    LET given == IF call.method = None THEN call.state.method ELSE call.method
    IN  IF given.kind = "AdcMethod" THEN given ELSE AdcMethod(given)

LowOrder == EffectiveMethod.property_method \in {"adc0", "adc1"}

StateGroupRuns ==
    \/ call.fn = "attach_state_properties"
    \/ call.fn = "attach_properties" /\ call.state_properties

TransitionGroupRuns ==
    \/ call.fn = "attach_transition_properties"
    \/ call.fn = "attach_properties" /\ call.transition_properties

StateDipolesRequested == call.fn = "state_dipole_moments" \/ StateGroupRuns

HasDipoleIntegrals ==
    hasattr(call.state.reference_state.operator_integrals, "electric_dipole")

\* C3, as claimed: with an effective method of property_method adc0 or adc1 a
\* request for state dipole moments ends in the not-implemented error,
\* whatever the other inputs.
C3_AlwaysNotImplemented ==
    (StateDipolesRequested /\ LowOrder /\ outcome # "running") =>
        outcome = "NotImplementedError"

\* the error of a request for state dipole moments with a low-order method
LowOrderError ==
    IF ~hasattr(call.state, "state_diffdms") /\ call.fn = "state_dipole_moments"
    THEN "ValueError: no state densities"
    ELSE IF ~hasattr(call.state, "state_diffdms") /\ provider.fails
    THEN "ProviderError"
    ELSE IF ~HasDipoleIntegrals
    THEN "ValueError: no electric dipole integrals"
    ELSE "NotImplementedError"

\* C3, amended: with an effective method of property_method adc0 or adc1 a
\* request for state dipole moments always fails and attaches no state
\* dipole moments, and the error is the not-implemented error exactly when
\* the checks made before it pass: missing state_diffdms (ValueError, or the
\* error of the density provider called to supply them) and missing
\* electric_dipole integrals (ValueError) are reported first.
C3_FailsChecksFirst ==
    (StateDipolesRequested /\ LowOrder) =>
        /\ outcome # "returned"
        /\ pc \in {"ap_copy", "ap_if_state", "asp_densities", "asp_dipole", "sdm_call"}
        /\ outcome # "running" => outcome = LowOrderError
        /\ value = <<>>
        /\ \A i \in 1..Len(heap) : AsGiven(heap[i], "state_dipole_moments")

C3_Witness ==
    /\ call.fn = "attach_properties"
    /\ call.state_properties
    /\ call.method = None
    /\ LowOrder
    /\ ~hasattr(call.state, "state_diffdms")
    /\ Len(calls) = 1
    /\ outcome = "NotImplementedError"

Orchestrators ==
    {"attach_properties", "attach_state_properties", "attach_transition_properties"}

StateDipoleFormula ==
    LET ddms == call.state.state_diffdms
        ref == call.state.reference_state
        dip == ref.operator_integrals.electric_dipole
    IN  /\ outcome = "returned"
        /\ Len(value) = Len(ddms)
        /\ \A i \in 1..Len(ddms) :
              /\ Len(value[i]) = 3
              /\ \A k \in 1..3 :
                    value[i][k] = Contraction(dip[k], ref.density)
                                  + Contraction(dip[k], call.state.ground_state.mp2_diffdm)
                                  - ref.nuclear_dipole[k]
                                  + Contraction(dip[k], ddms[i])
        /\ \A i, j \in 1..Len(ddms) : \A k \in 1..3 :
              value[i][k] - value[j][k]
                 = Contraction(dip[k], ddms[i]) - Contraction(dip[k], ddms[j])

StateDipoleInputs ==
    /\ call.fn = "state_dipole_moments"
    /\ outcome # "running"
    /\ ~LowOrder
    /\ hasattr(call.state, "state_diffdms")
    /\ HasDipoleIntegrals

\* C8, as claimed: for an effective method other than adc0/adc1,
\* state_dipole_moments returns one 3-vector per difference density, in
\* state order, component k of vector i being trace(dipole[k], reference
\* density) + trace(dipole[k], mp2_diffdm) - nuclear_dipole[k]
\* + trace(dipole[k], state_diffdms[i]).
C8_StateDipoleMoments == StateDipoleInputs => StateDipoleFormula

\* What holds of state_dipole_moments: the formula of C8 for a state of at
\* least one difference density, and a ValueError for a state of none.
StateDipoleMomentsNonEmpty ==
    StateDipoleInputs =>
        IF Len(call.state.state_diffdms) > 0 THEN StateDipoleFormula
        ELSE outcome = "ValueError: operands could not be broadcast together"

\* control has left the state group of attach_properties
InTransitionGroup ==
    pc \in {"ap_if_trans", "atp_densities", "atp_dipole", "atp_strengths",
            "atp_return", "ap_return"}

\* C9: in attach_properties with both flags true the state group is complete
\* before the transition group starts, and an error ends the call: when the
\* state group fails the provider is never asked for ground-to-excited
\* transition densities and no transition dipole moments or oscillator
\* strengths are attached; when the transition group fails the state dipole
\* moments are on the local copy alone, nothing is returned and the
\* original object is as it was.
C9_StateGroupFirst ==
    (/\ call.fn = "attach_properties"
     /\ call.state_properties
     /\ call.transition_properties) =>
        /\ Raised => (ret = 0 /\ ~ENABLED Next /\ heap[1] = call.state)
        /\ ~InTransitionGroup =>
              /\ \A j \in 1..Len(calls) : ~calls[j].ground_to_excited_tdm
              /\ \A i \in 1..Len(heap) :
                    /\ AsGiven(heap[i], "transition_dipole_moments")
                    /\ AsGiven(heap[i], "oscillator_strengths")
        /\ InTransitionGroup =>
              /\ cur # 1
              /\ hasattr(heap[cur], "state_dipole_moments")
              /\ heap[cur].state_dipole_moments
                    = state_dipole_moments(heap[cur], call.method).value
              /\ state_dipole_moments(heap[cur], call.method).exc = ""
              /\ AsGiven(heap[1], "state_dipole_moments")

C9_Witness ==
    /\ call.fn = "attach_properties"
    /\ call.state_properties /\ call.transition_properties
    /\ Raised
    /\ pc = "atp_densities"
    /\ Derived \cap DOMAIN call.state = {}
    /\ hasattr(heap[cur], "state_dipole_moments")
    /\ Derived \cap DOMAIN heap[1] = {}
    /\ ret = 0

\* C10: transition_dipole_moments raises ValueError, and returns nothing,
\* when the state lacks ground_to_excited_tdms or the reference state lacks
\* electric_dipole integrals, the transition densities being looked for
\* first; when it fails in attach_transition_properties neither
\* transition_dipole_moments nor oscillator_strengths is attached, and
\* oscillator strengths are attached only to a state whose transition dipole
\* moments were attached.
C10_TransitionPreconditions ==
    /\ (call.fn = "transition_dipole_moments" /\ outcome # "running") =>
          outcome = IF ~hasattr(call.state, "ground_to_excited_tdms")
                    THEN "ValueError: no transition densities"
                    ELSE IF ~HasDipoleIntegrals
                    THEN "ValueError: no electric dipole integrals"
                    ELSE "returned"
    /\ (call.fn = "transition_dipole_moments" /\ Raised) => value = <<>>
    /\ (call.fn \in Orchestrators /\ Raised /\ pc = "atp_dipole") =>
          /\ outcome = "ValueError: no electric dipole integrals"
          /\ ~HasDipoleIntegrals
          /\ AsGiven(heap[cur], "transition_dipole_moments")
          /\ AsGiven(heap[cur], "oscillator_strengths")
    /\ call.fn \in Orchestrators =>
          \A i \in 1..Len(heap) :
              ~AsGiven(heap[i], "oscillator_strengths") =>
                  /\ hasattr(heap[i], "transition_dipole_moments")
                  /\ heap[i].transition_dipole_moments
                        = transition_dipole_moments(heap[i]).value
                  /\ pc \in {"atp_return", "ap_return"}

C10_Witness ==
    /\ call.fn = "attach_transition_properties"
    /\ outcome = "ValueError: no electric dipole integrals"
    /\ pc = "atp_dipole"
    /\ Len(calls) = 1
    /\ hasattr(heap[cur], "ground_to_excited_tdms")
    /\ Derived \cap DOMAIN heap[cur] = {}

====
